---- MODULE Spec2Model ----
(***************************************************************************)
(* Whoswho.py: a registry (Whoswho) of named agents (Agent), each with a   *)
(* role description and a timestamped interaction log, over a shared       *)
(* controller (AIController) that talks to a chat service and extracts     *)
(* fenced code blocks from replies.                                        *)
(*                                                                         *)
(* Agent objects live in `heap` (Python object identity: a caller may keep *)
(* a reference returned by get_agent after the registry dropped it);       *)
(* `agents` is the registry's dict, in insertion order.  Calls are         *)
(* synchronous: while interact runs (pc # "idle") nothing else is called.  *)
(*                                                                         *)
(* Spec is the whole system.  SpecLog, SpecRole and SpecChain are the same *)
(* actions over fewer inputs (all timestamps, all role descriptions, all   *)
(* reply contents, one value each of the rest), and SpecExtract applies    *)
(* extract_code to synthetic responses.                                    *)
(***************************************************************************)
EXTENDS Integers, Sequences, FiniteSets, TLC

\* ---------------------------------------------------------------- bounds
MaxObjs == 2        \* Agent objects ever constructed
MaxLog  == 4        \* log entries in all, over all agents
MaxSegs == 3        \* segments of a synthetic response (extract_code)

Names   == {"dev", "assistant"}     \* agent names a caller may use
Roles   == {"r1", "r2"}             \* role descriptions
Queries == {"q"}                    \* caller-supplied queries
Replies == {"p1", "p2"}             \* contents the chat service may answer
Times   == {0, 1}                   \* int(time.time()): wall time, which an adjustment may set back
Iterations == 0 .. (MaxLog \div 2)  \* `iterations`; 0 leaves the loop body unrun

ASSISTANT == "assistant"            \* the literal role of a chat reply

VARIABLES
    agents,       \* Whoswho.agents: the dict, a sequence of [name, obj] in insertion order
    heap,         \* the Agent objects constructed so far: [name, role_description, log]
    origin,       \* history: for each object, what each log entry was ("query"/"reply")
    pc,           \* "idle" | "send" | "chat" (where a running interact is) | "exited" |
                  \* "extract" (a response is at hand, extract_code not yet called)
    call,         \* the frame of the running interact
    request,      \* the chat request in flight
    result,       \* what the last call returned or raised
    doc,          \* extract_code: the synthetic response, as segments
    code_blocks   \* extract_code: what it returned

vars == <<agents, heap, origin, pc, call, request, result, doc, code_blocks>>

NoCall    == [obj |-> 0, query |-> "", iterations |-> 0, left |-> 0, log0 |-> <<>>]
NoRequest == [system |-> "", user |-> ""]

\* how the last call that assigns state ended: it returned None, it returned a
\* chat response {"role", "content"}, or it raised
ReturnedNone == [status |-> "ok", role |-> "", content |-> ""]
Returned(response) ==
    [status |-> "ok", role |-> response.role, content |-> response.content]
Raised(exception) == [status |-> exception, role |-> "", content |-> ""]

Objs == 1 .. Len(heap)

\* ------------------------------------------------------------ sequences
IsPrefix(s, t) == Len(s) <= Len(t) /\ SubSeq(t, 1, Len(s)) = s

RECURSIVE Flatten(_)
Flatten(ss) == IF ss = <<>> THEN <<>> ELSE Head(ss) \o Flatten(Tail(ss))

\* every log entry of every Agent object
all_entries == Flatten([i \in Objs |-> heap[i].log])

\* ------------------------------------------------------------ the dict
\* name in self.agents
dict_has(d, name) == \E i \in 1 .. Len(d) : d[i].name = name

dict_index(d, name) == CHOOSE i \in 1 .. Len(d) : d[i].name = name

\* a faulty dict_set: an existing key keeps its old value (setdefault)
dict_set_keep_first(d, name, obj) ==
    IF dict_has(d, name) THEN d ELSE Append(d, [name |-> name, obj |-> obj])

\* self.agents[name] = agent: a new key goes last, an existing key keeps its place
dict_set(d, name, obj) ==
    IF dict_has(d, name)
    THEN [d EXCEPT ![dict_index(d, name)] = [name |-> name, obj |-> obj]]
    ELSE Append(d, [name |-> name, obj |-> obj])

\* a faulty dict_del: the whole dict is cleared
dict_del_clear(d, name) == <<>>

\* del self.agents[name]
dict_del(d, name) == SelectSeq(d, LAMBDA kv : kv.name # name)

dict_keys(d) == {d[i].name : i \in 1 .. Len(d)}

\* ------------------------------------------------------------ Agent
\* Agent.__init__
NewAgent(name, role_description) ==
    [name |-> name, role_description |-> role_description, log |-> <<>>]

\* a faulty log_interaction: the entry is inserted at the front
log_interaction_prepend(log, timestamp, role, content) ==
    <<[timestamp |-> timestamp, role |-> role, content |-> content]>> \o log

\* Agent.log_interaction: the log with one entry appended
log_interaction(log, timestamp, role, content) ==
    Append(log, [timestamp |-> timestamp, role |-> role, content |-> content])

\* Agent.get_log
get_log(o) == heap[o].log

\* Agent.get_log_by_role
get_log_by_role(o, role_name) ==
    SelectSeq(heap[o].log, LAMBDA entry : entry.role = role_name)

\* ------------------------------------------------------------ Whoswho reads
\* Whoswho.get_agent: the object, or 0 for None
get_agent(name) ==
    IF dict_has(agents, name) THEN agents[dict_index(agents, name)].obj ELSE 0

\* a faulty list_agents: the agent's name where its role description belongs
list_agents_names == [name \in dict_keys(agents) |-> heap[get_agent(name)].name]

\* Whoswho.list_agents
list_agents == [name \in dict_keys(agents) |-> heap[get_agent(name)].role_description]

\* a faulty get_agent_log: an empty log is taken for no log (`if log:`)
get_agent_log_nonempty(name) ==
    LET agent == get_agent(name)
    IN  IF agent # 0 /\ get_log(agent) # <<>>
        THEN [found |-> TRUE, log |-> get_log(agent)]
        ELSE [found |-> FALSE, log |-> <<>>]

\* Whoswho.get_agent_log: [found, log]; found = FALSE is None
get_agent_log(name) ==
    LET agent == get_agent(name)
    IN  IF agent # 0 THEN [found |-> TRUE, log |-> get_log(agent)]
        ELSE [found |-> FALSE, log |-> <<>>]

\* Whoswho.get_agent_log_by_role: filters by the agent's own name
get_agent_log_by_role(name) ==
    LET agent == get_agent(name)
    IN  IF agent # 0 THEN [found |-> TRUE, log |-> get_log_by_role(agent, name)]
        ELSE [found |-> FALSE, log |-> <<>>]

\* a faulty insert_by_timestamp: the order is descending (reverse=True)
RECURSIVE insert_by_timestamp_desc(_, _)
insert_by_timestamp_desc(sorted, entry) ==
    IF sorted = <<>> THEN <<entry>>
    ELSE IF sorted[Len(sorted)].timestamp >= entry.timestamp THEN Append(sorted, entry)
    ELSE Append(insert_by_timestamp_desc(SubSeq(sorted, 1, Len(sorted) - 1), entry),
                sorted[Len(sorted)])

\* a faulty insert_by_timestamp: an entry goes before the entries of its own
\* timestamp (a sort that is not stable)
RECURSIVE insert_by_timestamp_unstable(_, _)
insert_by_timestamp_unstable(sorted, entry) ==
    IF sorted = <<>> THEN <<entry>>
    ELSE IF sorted[Len(sorted)].timestamp < entry.timestamp THEN Append(sorted, entry)
    ELSE Append(insert_by_timestamp_unstable(SubSeq(sorted, 1, Len(sorted) - 1), entry),
                sorted[Len(sorted)])

\* list.sort(key=timestamp): Python's sort is stable
RECURSIVE insert_by_timestamp(_, _)
insert_by_timestamp(sorted, entry) ==
    IF sorted = <<>> THEN <<entry>>
    ELSE IF sorted[Len(sorted)].timestamp <= entry.timestamp THEN Append(sorted, entry)
    ELSE Append(insert_by_timestamp(SubSeq(sorted, 1, Len(sorted) - 1), entry),
                sorted[Len(sorted)])

RECURSIVE sort_by_timestamp(_)
sort_by_timestamp(s) ==
    IF s = <<>> THEN <<>>
    ELSE insert_by_timestamp(sort_by_timestamp(SubSeq(s, 1, Len(s) - 1)), s[Len(s)])

\* a faulty extend_all: the log of every Agent object ever constructed
extend_all_objects == Flatten([o \in Objs |-> get_log(o)])

\* the loop of get_full_log: every registered agent's log, in dict order
extend_all == Flatten([i \in 1 .. Len(agents) |-> get_log(agents[i].obj)])

\* Whoswho.get_full_log
get_full_log == sort_by_timestamp(extend_all)

\* the objects no longer in the registry
Dropped == {o \in Objs : \A i \in 1 .. Len(agents) : agents[i].obj # o}

\* ------------------------------------------------------------ Init
Init ==
    /\ agents = <<>>
    /\ heap = <<>>
    /\ origin = <<>>
    /\ pc = "idle"
    /\ call = NoCall
    /\ request = NoRequest
    /\ result = ReturnedNone
    /\ doc = <<>>
    /\ code_blocks = <<>>

Idle == pc = "idle"

\* ------------------------------------------------------------ Whoswho writes
\* Whoswho.add_agent
add_agent(name, role_description) ==
    /\ Idle
    /\ Len(heap) < MaxObjs
    /\ heap' = Append(heap, NewAgent(name, role_description))
    /\ origin' = Append(origin, <<>>)
    /\ agents' = dict_set(agents, name, Len(heap) + 1)
    /\ result' = ReturnedNone
    /\ UNCHANGED <<pc, call, request, doc, code_blocks>>

\* Whoswho.remove_agent
remove_agent(name) ==
    /\ Idle
    /\ agents' = IF dict_has(agents, name) THEN dict_del(agents, name) ELSE agents
    /\ result' = ReturnedNone
    /\ UNCHANGED <<heap, origin, pc, call, request, doc, code_blocks>>

\* a faulty update_role: the agent is built anew with the new role description
update_role_reinit(o, new_role_description) ==
    /\ Idle
    /\ o \in Objs
    /\ heap' = [heap EXCEPT ![o] = NewAgent(heap[o].name, new_role_description)]
    /\ origin' = [origin EXCEPT ![o] = <<>>]
    /\ result' = ReturnedNone
    /\ UNCHANGED <<agents, pc, call, request, doc, code_blocks>>

\* Agent.update_role, on any Agent object the caller holds
update_role(o, new_role_description) ==
    /\ Idle
    /\ o \in Objs
    /\ heap' = [heap EXCEPT ![o].role_description = new_role_description]
    /\ result' = ReturnedNone
    /\ UNCHANGED <<agents, origin, pc, call, request, doc, code_blocks>>

\* a faulty update_agent: the new role description is given to every agent
update_agent_every(name, new_role_description) ==
    /\ Idle
    /\ IF get_agent(name) # 0
       THEN /\ heap' = [o \in Objs |->
                           [heap[o] EXCEPT !.role_description = new_role_description]]
            /\ result' = ReturnedNone
       ELSE /\ heap' = heap
            /\ result' = Raised("ValueError")
    /\ UNCHANGED <<agents, origin, pc, call, request, doc, code_blocks>>

\* a faulty update_agent: a name that is not registered is passed over in silence
update_agent_silent(name, new_role_description) ==
    /\ Idle
    /\ LET agent == get_agent(name)
       IN  heap' = IF agent # 0
                   THEN [heap EXCEPT ![agent].role_description = new_role_description]
                   ELSE heap
    /\ result' = ReturnedNone
    /\ UNCHANGED <<agents, origin, pc, call, request, doc, code_blocks>>

\* Whoswho.update_agent
update_agent(name, new_role_description) ==
    /\ Idle
    /\ LET agent == get_agent(name)
       IN  IF agent # 0
           THEN /\ heap' = [heap EXCEPT ![agent].role_description = new_role_description]
                /\ result' = ReturnedNone
           ELSE /\ heap' = heap
                /\ result' = Raised("ValueError")
    /\ UNCHANGED <<agents, origin, pc, call, request, doc, code_blocks>>

\* ------------------------------------------------------------ Agent.interact
\* interact(query, model, iterations) is entered; range(iterations) is empty for
\* iterations <= 0 and `return response` then raises UnboundLocalError
interact(o, query, iterations) ==
    /\ Idle
    /\ o \in Objs
    /\ Len(all_entries) + 2 * iterations <= MaxLog
    /\ IF iterations >= 1
       THEN /\ pc' = "send"
            /\ call' = [obj |-> o, query |-> query, iterations |-> iterations,
                        left |-> iterations, log0 |-> heap[o].log]
            /\ result' = result
       ELSE /\ pc' = pc
            /\ call' = call
            /\ result' = Raised("UnboundLocalError")
    /\ UNCHANGED <<agents, heap, origin, request, doc, code_blocks>>

\* a faulty interact_send: one log list shared by all agents (a class attribute)
interact_send_shared(timestamp) ==
    /\ pc = "send"
    /\ LET o == call.obj
       IN  /\ heap' = [i \in Objs |->
                           [heap[i] EXCEPT !.log =
                               log_interaction(@, timestamp, heap[o].name, call.query)]]
           /\ origin' = [i \in Objs |-> Append(origin[i], "query")]
           /\ request' = [system |-> heap[o].role_description, user |-> call.query]
    /\ pc' = "chat"
    /\ UNCHANGED <<agents, call, result, doc, code_blocks>>

\* one pass of the loop up to the call of the service: the query is logged under
\* the agent's name and AIController.chat builds its two messages
interact_send(timestamp) ==
    /\ pc = "send"
    /\ LET o == call.obj
       IN  /\ heap' = [heap EXCEPT ![o].log =
                           log_interaction(@, timestamp, heap[o].name, call.query)]
           /\ origin' = [origin EXCEPT ![o] = Append(@, "query")]
           /\ request' = [system |-> heap[o].role_description, user |-> call.query]
    /\ pc' = "chat"
    /\ UNCHANGED <<agents, call, result, doc, code_blocks>>

\* a faulty chat_reply: the next pass sends the same query again
chat_reply_same_query(content, timestamp) ==
    /\ pc = "chat"
    /\ LET o == call.obj
       IN  /\ heap' = [heap EXCEPT ![o].log =
                           log_interaction(@, timestamp, ASSISTANT, content)]
           /\ origin' = [origin EXCEPT ![o] = Append(@, "reply")]
           /\ IF call.left > 1
              THEN /\ pc' = "send"
                   /\ call' = [call EXCEPT !.left = @ - 1]
                   /\ result' = result
              ELSE /\ pc' = "idle"
                   /\ call' = NoCall
                   /\ result' = Returned([role |-> ASSISTANT, content |-> content])
    /\ request' = NoRequest
    /\ UNCHANGED <<agents, doc, code_blocks>>

\* the stream ends normally: chat returns {"role": "assistant", "content": content};
\* the reply is logged and becomes the next query
chat_reply(content, timestamp) ==
    /\ pc = "chat"
    /\ LET o == call.obj
       IN  /\ heap' = [heap EXCEPT ![o].log =
                           log_interaction(@, timestamp, ASSISTANT, content)]
           /\ origin' = [origin EXCEPT ![o] = Append(@, "reply")]
           /\ IF call.left > 1
              THEN /\ pc' = "send"
                   /\ call' = [call EXCEPT !.query = content, !.left = @ - 1]
                   /\ result' = result
              ELSE /\ pc' = "idle"
                   /\ call' = NoCall
                   /\ result' = Returned([role |-> ASSISTANT, content |-> content])
    /\ request' = NoRequest
    /\ UNCHANGED <<agents, doc, code_blocks>>

\* client.chat.completions.create raises: chat prints the error and sys.exit(1)
chat_fail_open ==
    /\ pc = "chat"
    /\ pc' = "exited"
    /\ result' = Raised("SystemExit")
    /\ UNCHANGED <<agents, heap, origin, call, request, doc, code_blocks>>

\* a faulty chat_fail_stream: the entries of the failed call are taken back
chat_fail_stream_rollback(caught) ==
    /\ pc = "chat"
    /\ pc' = IF caught THEN "idle" ELSE "exited"
    /\ call' = IF caught THEN NoCall ELSE call
    /\ request' = IF caught THEN NoRequest ELSE request
    /\ result' = Raised("StreamError")
    /\ heap' = [heap EXCEPT ![call.obj].log = call.log0]
    /\ origin' = [origin EXCEPT ![call.obj] = SubSeq(@, 1, Len(call.log0))]
    /\ UNCHANGED <<agents, doc, code_blocks>>

\* the stream raises while it is consumed: outside the try, so the exception leaves
\* chat and interact; a caller that catches it goes on, otherwise the process ends
chat_fail_stream(caught) ==
    /\ pc = "chat"
    /\ pc' = IF caught THEN "idle" ELSE "exited"
    /\ call' = IF caught THEN NoCall ELSE call
    /\ request' = IF caught THEN NoRequest ELSE request
    /\ result' = Raised("StreamError")
    /\ UNCHANGED <<agents, heap, origin, doc, code_blocks>>

\* ------------------------------------------------------------ calls of the reads
\* a read returns the value of the operator of its name and assigns nothing
Read == Idle /\ UNCHANGED vars

call_get_agent(name) == Read

call_list_agents == Read

call_get_log(o) == o \in Objs /\ Read

call_get_log_by_role(o, role_name) == o \in Objs /\ Read

call_get_agent_log(name) == Read

call_get_agent_log_by_role(name) == Read

\* a faulty get_full_log: each registered agent's own list is sorted in place
call_get_full_log_in_place ==
    /\ Idle
    /\ heap' = [o \in Objs |->
                   IF o \in Dropped THEN heap[o]
                   ELSE [heap[o] EXCEPT !.log = sort_by_timestamp(@)]]
    /\ UNCHANGED <<agents, origin, pc, call, request, result, doc, code_blocks>>

call_get_full_log == Read

\* ------------------------------------------------------------ extract_code
\* A response's content is a string; here a sequence of tokens: FENCE stands for
\* three backticks, "a" a word character (\w), "+" a character that is neither a word
\* character nor a newline, "\n" a newline.
FENCE == "FENCE"
IsWord(c) == c = "a"

\* the first FENCE of s at or after position i, 0 if there is none
RECURSIVE next_fence(_, _)
next_fence(s, i) ==
    IF i > Len(s) THEN 0 ELSE IF s[i] = FENCE THEN i ELSE next_fence(s, i + 1)

\* (?:\w+)? from position i: the position after the longest run of word characters
RECURSIVE skip_word(_, _)
skip_word(s, i) == IF i <= Len(s) /\ IsWord(s[i]) THEN skip_word(s, i + 1) ELSE i

\* the pattern ```(?:\w+)?\n(.*?)``` tried at position i with re.DOTALL: the fence,
\* word characters (a shorter run cannot be followed by the newline), the newline,
\* then the shortest text up to the next fence
match_at(s, i) ==
    LET j == skip_word(s, i + 1)
        close == next_fence(s, j + 1)
    IN  IF s[i] = FENCE /\ j <= Len(s) /\ s[j] = "\n" /\ close # 0
        THEN [ok |-> TRUE, group |-> SubSeq(s, j + 1, close - 1), end |-> close + 1]
        ELSE [ok |-> FALSE, group |-> <<>>, end |-> i + 1]

\* re.findall from position i: leftmost matches that do not overlap, the group of each
RECURSIVE findall(_, _)
findall(s, i) ==
    IF i > Len(s) THEN <<>>
    ELSE LET m == match_at(s, i)
         IN  IF m.ok THEN <<m.group>> \o findall(s, m.end) ELSE findall(s, i + 1)

\* AIController.extract_code on response["content"]
extract_code(content) == findall(content, 1)

\* ---- synthetic responses: text, fenced blocks, and at the end at most one
\* ---- opening fence that is never closed
Tags      == {<<>>, <<"a">>, <<"a", "+">>}          \* none, "py", "c+"
Interiors == {<<>>, <<"a">>, <<"a", "\n", "+">>}
Texts     == {<<"a">>, <<"\n", "+">>}

Segments ==
    [kind : {"text"}, tag : {<<>>}, body : Texts]
        \cup [kind : {"block"}, tag : Tags, body : Interiors]
        \cup [kind : {"open"}, tag : {<<>>, <<"a">>}, body : {<<"a">>}]

\* the text of one segment
render_segment(seg) ==
    CASE seg.kind = "text"  -> seg.body
      [] seg.kind = "block" -> <<FENCE>> \o seg.tag \o <<"\n">> \o seg.body \o <<FENCE>>
      [] seg.kind = "open"  -> <<FENCE>> \o seg.tag \o <<"\n">> \o seg.body

\* the content of the response made of the segments d
render(d) == Flatten([i \in 1 .. Len(d) |-> render_segment(d[i])])

Docs ==
    {d \in UNION {[1 .. n -> Segments] : n \in 0 .. MaxSegs} :
        \A i \in 1 .. Len(d) : d[i].kind = "open" => i = Len(d)}

\* a registry with one agent, and a response at hand
InitExtract ==
    /\ agents = <<[name |-> "dev", obj |-> 1]>>
    /\ heap = <<NewAgent("dev", "r1")>>
    /\ origin = << <<>> >>
    /\ pc = "extract"
    /\ call = NoCall
    /\ request = NoRequest
    /\ result = ReturnedNone
    /\ doc \in Docs
    /\ code_blocks = <<>>

\* AIController.extract_code(response)
controller_extract_code ==
    /\ pc = "extract"
    /\ code_blocks' = extract_code(render(doc))
    /\ pc' = "idle"
    /\ UNCHANGED <<agents, heap, origin, call, request, result, doc>>

\* Agent.extract_code(response): hands the response to the controller
agent_extract_code(o) ==
    /\ o \in Objs
    /\ pc = "extract"
    /\ code_blocks' = extract_code(render(doc))
    /\ pc' = "idle"
    /\ UNCHANGED <<agents, heap, origin, call, request, result, doc>>

NextExtract ==
    \/ controller_extract_code
    \/ \E o \in Objs : agent_extract_code(o)

SpecExtract == InitExtract /\ [][NextExtract]_vars

\* ------------------------------------------------------------ the system
\* every call a caller can make and every step of a running interact, with role
\* descriptions, timestamps and reply contents drawn from R, T and P
NextOver(R, T, P) ==
    \/ \E name \in Names, r \in R : add_agent(name, r)
    \/ \E name \in Names : remove_agent(name)
    \/ \E name \in Names, r \in R : update_agent(name, r)
    \/ \E o \in Objs, r \in R : update_role(o, r)
    \/ \E o \in Objs, q \in Queries, k \in Iterations : interact(o, q, k)
    \/ \E t \in T : interact_send(t)
    \/ \E content \in P, t \in T : chat_reply(content, t)
    \/ chat_fail_open
    \/ \E caught \in BOOLEAN : chat_fail_stream(caught)
    \/ \E name \in Names : call_get_agent(name)
    \/ call_list_agents
    \/ \E o \in Objs : call_get_log(o)
    \/ \E o \in Objs, role_name \in Names : call_get_log_by_role(o, role_name)
    \/ \E name \in Names : call_get_agent_log(name)
    \/ \E name \in Names : call_get_agent_log_by_role(name)
    \/ call_get_full_log

Next == NextOver(Roles, Times, Replies)

\* the whole system
Spec == Init /\ [][Next]_vars

\* the system with one role description: the logs and their timestamps in full
NextLog == NextOver({"r1"}, Times, {"p1"})
SpecLog == Init /\ [][NextLog]_vars

\* the system with one timestamp: the registry and the role descriptions in full
NextRole == NextOver(Roles, {0}, {"p1"})
SpecRole == Init /\ [][NextRole]_vars

\* the system with one role description and one timestamp: the replies in full
NextChain == NextOver({"r1"}, {0}, Replies)
SpecChain == Init /\ [][NextChain]_vars

\* ============================================================ properties
Sorted(s) == \A i \in 1 .. Len(s) - 1 : s[i].timestamp <= s[i + 1].timestamp

Count(s, e) == Cardinality({i \in 1 .. Len(s) : s[i] = e})

\* how often entry e occurs in the logs of the agents registered under the names S
RECURSIVE CountRegistered(_, _)
CountRegistered(S, e) ==
    IF S = {} THEN 0
    ELSE LET n == CHOOSE x \in S : TRUE
         IN  Count(heap[get_agent(n)].log, e) + CountRegistered(S \ {n}, e)

\* the entries of o's log that interact recorded as the query, in log order
queries_of(o) ==
    LET log == heap[o].log
        tagged == [i \in 1 .. Len(log) |-> [entry |-> log[i], was |-> origin[o][i]]]
        kept == SelectSeq(tagged, LAMBDA x : x.was = "query")
    IN  [i \in 1 .. Len(kept) |-> kept[i].entry]

\* a step of interact: its call, a step while it runs, its end (no other call is
\* made while it runs), or the call that raises at once on an empty loop
InteractStep ==
    \/ pc # "idle"
    \/ pc' # "idle"
    \/ \E o \in Objs, q \in Queries : interact(o, q, 0)

\* the mapping f with name n set to role r
WithRole(f, n, r) == [m \in DOMAIN f \cup {n} |-> IF m = n THEN r ELSE f[m]]

\* ---------------------------------------------------------------- C1
\* C1: an interact(query, iterations = k), k >= 1, whose chats all succeed leaves
\* the agent's earlier log as a prefix of its log and appends exactly 2k entries,
\* the odd ones under the agent's own name and the even ones under "assistant".
C1_InteractAppends2k ==
    [][(pc = "chat" /\ pc' = "idle" /\ result'.status = "ok") =>
        LET o == call.obj
            k == call.iterations
            old == call.log0
            new == heap'[o].log
        IN  /\ k >= 1
            /\ IsPrefix(old, new)
            /\ Len(new) = Len(old) + 2 * k
            /\ \A i \in 1 .. 2 * k :
                   new[Len(old) + i].role =
                       IF i % 2 = 1 THEN heap[o].name ELSE ASSISTANT]_vars

\* an interact with iterations = 2 has returned: the second query is the first reply
C1_Witness ==
    /\ pc = "idle"
    /\ result.status = "ok"
    /\ result.role = ASSISTANT
    /\ \E o \in Objs :
           /\ heap[o].name = "dev"
           /\ Len(heap[o].log) = 4
           /\ heap[o].log[1].content = "q"
           /\ heap[o].log[3].role = "dev"
           /\ heap[o].log[3].content = "p1"

\* ---------------------------------------------------------------- C2
\* C2: in every state get_full_log() holds each entry exactly as often as the logs of
\* the registered agents hold it, and its timestamps never decrease.
C2_FullLogSortedPermutation ==
    LET full == get_full_log
    IN  /\ Sorted(full)
        /\ \A o \in Objs : \A i \in 1 .. Len(heap[o].log) :
               (o \notin Dropped) =>
                   (Count(full, heap[o].log[i]) =
                        CountRegistered(dict_keys(agents), heap[o].log[i]))
        /\ \A i \in 1 .. Len(full) :
               Count(full, full[i]) = CountRegistered(dict_keys(agents), full[i])

\* two registered agents with entries whose concatenation is out of order
C2_Witness ==
    /\ pc = "idle"
    /\ Len(agents) = 2
    /\ \A i \in 1 .. 2 : heap[agents[i].obj].log # <<>>
    /\ ~Sorted(extend_all)
    /\ get_full_log # extend_all

\* ---------------------------------------------------------------- C3
\* C3: add_agent(name, role) on a registered name does not fail and replaces the
\* agent: right after it get_agent_log(name) is the empty log, list_agents()[name]
\* is the new role, and the registry holds the name once.
C3_ReAddReplaces ==
    [][\A n \in Names, r \in Roles :
        (add_agent(n, r) /\ dict_has(agents, n)) =>
            /\ result'.status = "ok"
            /\ get_agent_log(n)' = [found |-> TRUE, log |-> <<>>]
            /\ list_agents'[n] = r
            /\ Cardinality({i \in 1 .. Len(agents') : agents'[i].name = n}) = 1
            /\ Len(agents') = Len(agents)]_vars

\* a name whose earlier agent had entries is registered anew with an empty log
C3_Witness ==
    \E o \in Dropped :
        /\ heap[o].log # <<>>
        /\ get_agent(heap[o].name) > o
        /\ get_agent_log(heap[o].name).log = <<>>
        /\ list_agents[heap[o].name] # heap[o].role_description

\* ---------------------------------------------------------------- C4
\* what a step may do to list_agents(): add_agent(n, r) sets n to r, a successful
\* update_agent(n, r) sets n to r, a failing one changes nothing, remove_agent(n)
\* takes n out, and no step of interact changes anything
ListAgentsStep ==
    /\ \A n \in Names, r \in Roles :
           /\ add_agent(n, r) => (list_agents' = WithRole(list_agents, n, r))
           /\ update_agent(n, r) =>
                  (list_agents' = IF n \in DOMAIN list_agents
                                  THEN WithRole(list_agents, n, r)
                                  ELSE list_agents)
    /\ \A n \in Names :
           remove_agent(n) =>
               (list_agents' = [m \in DOMAIN list_agents \ {n} |-> list_agents[m]])
    /\ InteractStep => (list_agents' = list_agents)

\* C4: list_agents() starts empty and every add_agent, update_agent, remove_agent
\* and interact step changes it as ListAgentsStep says: so after any sequence of
\* these calls its keys are the names added and not removed since, each with the
\* role most recently set by add_agent or a successful update_agent.
C4_ListAgentsTracksCalls ==
    /\ DOMAIN list_agents = {}
    /\ [][UNCHANGED vars \/ ListAgentsStep]_vars

\* one name was added and removed, the other was added and its role then changed
C4_Witness ==
    /\ pc = "idle"
    /\ DOMAIN list_agents = {"dev"}
    /\ list_agents["dev"] = "r2"
    /\ \E o \in Dropped : heap[o].name = "assistant" /\ heap[o].role_description = "r1"
    /\ heap[get_agent("dev")].log # <<>>

\* ---------------------------------------------------------------- C5
\* C5: update_agent(name, new_role) on a name that is not registered raises
\* ValueError and leaves the registry as it was: the same names, and every agent
\* with its role description and its log.
C5_UpdateAbsentRaises ==
    [][\A n \in Names, r \in Roles :
        (update_agent(n, r) /\ ~dict_has(agents, n)) =>
            /\ result'.status = "ValueError"
            /\ agents' = agents
            /\ heap' = heap
            /\ ~dict_has(agents', n)]_vars

\* update_agent has just failed on a registry that holds an agent with entries
C5_Witness ==
    /\ result.status = "ValueError"
    /\ pc = "idle"
    /\ \E i \in 1 .. Len(agents) : heap[agents[i].obj].log # <<>>

\* ---------------------------------------------------------------- C6
\* C6: remove_agent(name) returns without an error; on a name that is not
\* registered it leaves the registry as it was; on a registered name it deletes
\* that one entry, and every other name keeps its agent, role and log.
C6_RemoveDeletesOne ==
    [][\A n \in Names :
        remove_agent(n) =>
            /\ result'.status = "ok"
            /\ heap' = heap
            /\ IF dict_has(agents, n)
               THEN /\ dict_keys(agents') = dict_keys(agents) \ {n}
                    /\ Len(agents') = Len(agents) - 1
                    /\ \A m \in dict_keys(agents') :
                           /\ get_agent(m)' = get_agent(m)
                           /\ list_agents'[m] = list_agents[m]
                           /\ get_agent_log(m)' = get_agent_log(m)
               ELSE agents' = agents]_vars

\* the first of two registered agents was removed; the other is still there with
\* its entries
C6_Witness ==
    /\ pc = "idle"
    /\ result.status = "ok"
    /\ Len(agents) = 1
    /\ agents[1].obj = 2
    /\ heap[2].log # <<>>
    /\ 1 \in Dropped
    /\ heap[1].name # heap[2].name
    /\ heap[1].log # <<>>

\* ---------------------------------------------------------------- C7
\* C7: for every registered name, get_agent_log_by_role(name) is exactly the
\* entries of that agent's log that interact recorded as queries, in log order,
\* and so holds no reply.
C7_ByRoleIsTheQueries ==
    \A n \in dict_keys(agents) :
        get_agent_log_by_role(n).log = queries_of(get_agent(n))

\* ---------------------------------------------------------------- C8
\* the interiors of the fenced blocks of the segments d, in order
interiors_of(d) ==
    LET blocks == SelectSeq(d, LAMBDA seg : seg.kind = "block")
    IN  [i \in 1 .. Len(blocks) |-> blocks[i].body]

\* C8: extract_code on a response of N fenced blocks (an opening fence with an
\* optional language tag, any interior text, a closing fence), with text between
\* them and at most a final opening fence that is never closed, returns the N
\* interiors in order.
C8_ExtractReturnsInteriors ==
    pc = "idle" => code_blocks = interiors_of(doc)

\* ---------------------------------------------------------------- C9
\* a step that keeps every log: each Agent object's log is a prefix of its log
\* afterwards, and a registered name's log is a prefix of that name's log
\* afterwards unless the step is remove_agent or add_agent on that very name
AppendOnlyStep ==
    /\ \A o \in Objs : IsPrefix(heap[o].log, heap'[o].log)
    /\ \A n \in dict_keys(agents) :
           \/ /\ get_agent_log(n)'.found
              /\ IsPrefix(get_agent_log(n).log, get_agent_log(n)'.log)
           \/ remove_agent(n)
           \/ \E r \in Roles : add_agent(n, r)

\* C9: every step of every operation is an AppendOnlyStep: entries are never
\* changed or taken out of a log; they go only with the whole agent, when it is
\* removed or replaced by add_agent under its name.
C9_LogsAppendOnly == [][UNCHANGED vars \/ AppendOnlyStep]_vars

\* an agent's log grew over two calls of interact, with another agent removed
C9_Witness ==
    /\ pc = "idle"
    /\ Dropped # {}
    /\ \E n \in dict_keys(agents) :
           /\ Len(get_agent_log(n).log) = 3
           /\ get_agent_log(n).log[2].content = "q"

\* ---------------------------------------------------------------- C10
\* C10: in every state every entry of every agent's log has as role the agent's
\* name or "assistant"; the entries under the agent's name are exactly the
\* queries and the entries under "assistant" exactly the replies.
C10_RoleTellsQueryFromReply ==
    \A o \in Objs : \A i \in 1 .. Len(heap[o].log) :
        LET entry == heap[o].log[i]
        IN  /\ entry.role \in {heap[o].name, ASSISTANT}
            /\ (entry.role = heap[o].name) <=> (origin[o][i] = "query")
            /\ (entry.role = ASSISTANT) <=> (origin[o][i] = "reply")

\* ---------------------------------------------------------------- C11
\* what a step may do to role descriptions: update_role and a successful
\* update_agent change that of their one agent and nothing else in the registry;
\* no other step changes any; and the request a pass of interact issues has the
\* agent's role description of that moment as the system instruction
RoleStep ==
    /\ \A o \in Objs, r \in Roles :
           update_role(o, r) =>
               /\ heap' = [heap EXCEPT ![o].role_description = r]
               /\ agents' = agents
    /\ \A n \in Names, r \in Roles :
           (update_agent(n, r) /\ dict_has(agents, n)) =>
               /\ heap' = [heap EXCEPT ![get_agent(n)].role_description = r]
               /\ agents' = agents
               /\ result'.status = "ok"
    /\ \A o \in Objs :
           (heap'[o].role_description # heap[o].role_description) =>
               \E r \in Roles :
                   \/ update_role(o, r)
                   \/ \E n \in Names : get_agent(n) = o /\ update_agent(n, r)
    /\ (pc = "send" /\ pc' = "chat") =>
           /\ request'.system = heap[call.obj].role_description
           /\ request'.user = call.query

\* C11: update_role(new) and a successful update_agent(name, new) change only that
\* agent's role description (its log and every other agent stay as they were), the
\* description changes in no other way, and every chat request of interact carries
\* the description the agent has when the request is issued: the one last set.
C11_UpdateRoleFrame == [][UNCHANGED vars \/ RoleStep]_vars

\* a request carrying "r2" is in flight for an agent whose log holds an earlier
\* completed exchange, next to a second agent whose role description is "r1"
C11_Witness ==
    /\ pc = "chat"
    /\ request.system = "r2"
    /\ Len(heap) = 2
    /\ Len(agents) = 2
    /\ heap[call.obj].role_description = "r2"
    /\ Len(heap[call.obj].log) = 3
    /\ heap[call.obj].log[2].role = ASSISTANT
    /\ \E o \in Objs : o # call.obj /\ heap[o].role_description = "r1"

\* ---------------------------------------------------------------- C12
\* C12: every failure of a chat call, at the opening of the stream or while it is
\* consumed, ends the process: the step that leaves the service without a reply
\* logged goes to "exited", returns no reply, and issues no second request.
C12_ChatErrorIsFatal ==
    [][(pc = "chat" /\ heap' = heap) =>
           /\ pc' = "exited"
           /\ result'.status # "ok"
           /\ request' = request]_vars

\* ---------------------------------------------------------------- C13
\* what the lookups return for name n: None for all three when n is not a key of
\* the dict; otherwise the Agent object stored under n and that object's log,
\* empty or not
LookupsOf(n) ==
    IF n \in dict_keys(agents)
    THEN /\ get_agent(n) \in Objs
         /\ heap[get_agent(n)].name = n
         /\ get_agent_log(n) = [found |-> TRUE, log |-> heap[get_agent(n)].log]
         /\ get_agent_log_by_role(n).found
    ELSE /\ get_agent(n) = 0
         /\ ~get_agent_log(n).found
         /\ ~get_agent_log_by_role(n).found

\* C13: in every state get_agent, get_agent_log and get_agent_log_by_role return
\* None for a name that is not registered and get_agent_log returns the log, even
\* an empty one, for a name that is; and calling them changes nothing.
C13_AbsentLookupsReturnNone ==
    /\ [](\A n \in Names : LookupsOf(n))
    /\ [][\A n \in Names :
            (call_get_agent(n) \/ call_get_agent_log(n) \/ call_get_agent_log_by_role(n))
                => UNCHANGED <<agents, heap, result>>]_vars

\* one name is registered with an empty log; the other is not registered, though
\* an Agent object of that name with entries in its log still exists
C13_Witness ==
    /\ pc = "idle"
    /\ \E n \in dict_keys(agents) : get_agent_log(n).log = <<>>
    /\ \E o \in Dropped :
           /\ heap[o].log # <<>>
           /\ heap[o].name \notin dict_keys(agents)

\* ---------------------------------------------------------------- C14
Last(s) == s[Len(s)]

\* the steps of one interact(query, iterations = k), k >= 1: the call takes the
\* caller's query and issues nothing yet; a pass logs its query under the agent's
\* name and sends that same query, with no other request in flight; a reply that
\* is not the last is logged and becomes the query of the next pass; the last
\* reply is logged and returned, and by then k queries and k replies were logged
\* in turn, each query after the first being the reply before it
ChainStep ==
    /\ \A o \in Objs, q \in Queries, k \in Iterations \ {0} :
           interact(o, q, k) =>
               /\ call'.query = q
               /\ call'.left = k
               /\ heap' = heap
               /\ request' = NoRequest
    /\ (pc = "send" /\ pc' = "chat") =>
           LET o == call.obj
           IN  /\ request = NoRequest
               /\ request'.user = call.query
               /\ Len(heap'[o].log) = Len(heap[o].log) + 1
               /\ Last(heap'[o].log).content = call.query
               /\ Last(heap'[o].log).role = heap[o].name
    /\ (pc = "chat" /\ pc' = "send") =>
           LET o == call.obj
           IN  /\ call.left > 1
               /\ call'.left = call.left - 1
               /\ Len(heap'[o].log) = Len(heap[o].log) + 1
               /\ Last(heap'[o].log).role = ASSISTANT
               /\ call'.query = Last(heap'[o].log).content
               /\ request' = NoRequest
    /\ (pc = "chat" /\ pc' = "idle" /\ result'.status = "ok") =>
           LET o == call.obj
               k == call.iterations
               n == Len(call.log0)
               new == heap'[o].log
           IN  /\ call.left = 1
               /\ result'.role = ASSISTANT
               /\ result'.content = Last(new).content
               /\ Len(new) = n + 2 * k
               /\ new[n + 1].content \in Queries
               /\ \A i \in 1 .. k :
                      /\ origin'[o][n + 2 * i - 1] = "query"
                      /\ origin'[o][n + 2 * i] = "reply"
               /\ \A i \in 1 .. k - 1 : new[n + 2 * i + 1].content = new[n + 2 * i].content

\* C14: interact(query, iterations = k), k >= 1, with every chat succeeding issues
\* k requests one after the other; the first carries the caller's query, each
\* later one the content of the reply before it, as sent and as logged; and it
\* returns the k-th reply, whose content is that of the agent's last log entry.
C14_InteractSelfChain == [][UNCHANGED vars \/ ChainStep]_vars

\* interact with iterations = 2 has returned "p2" after the reply "p1" was sent
\* back as the second query
C14_Witness ==
    /\ pc = "idle"
    /\ result = Returned([role |-> ASSISTANT, content |-> "p2"])
    /\ \E o \in Objs :
           /\ heap[o].name = "dev"
           /\ Len(heap[o].log) = 4
           /\ heap[o].log[1].content = "q"
           /\ heap[o].log[2].content = "p1"
           /\ heap[o].log[3] = [timestamp |-> 0, role |-> "dev", content |-> "p1"]
           /\ heap[o].log[4].content = "p2"

\* ---------------------------------------------------------------- C15
\* the entries of s with timestamp t, in the order of s
AtTime(s, t) == SelectSeq(s, LAMBDA entry : entry.timestamp = t)

\* C15: in every state get_full_log() is the stable sort of the registered agents'
\* logs concatenated in dict order: its timestamps never decrease, and for each
\* timestamp its entries of that timestamp are those of the concatenation in the
\* same order.
C15_FullLogStable ==
    /\ Sorted(get_full_log)
    /\ \A t \in Times : AtTime(get_full_log, t) = AtTime(extend_all, t)

\* two registered agents whose logs the sort has to reorder; the first agent's
\* query and reply share a timestamp, and so do two different entries of the two
C15_Witness ==
    /\ pc = "idle"
    /\ Len(agents) = 2
    /\ get_full_log # extend_all
    /\ LET a == heap[agents[1].obj].log
           b == heap[agents[2].obj].log
       IN  /\ Len(a) = 2
           /\ Len(b) = 2
           /\ a[1].timestamp = a[2].timestamp
           /\ a[1] # a[2]
           /\ \E i \in 1 .. 2 : b[i].timestamp = a[1].timestamp /\ b[i] \notin {a[1], a[2]}

\* ---------------------------------------------------------------- C16
\* the Agent object a step of interact works on (0 for the call that raises at
\* once on an empty loop)
Callee == IF pc = "idle" THEN call'.obj ELSE call.obj

\* a step of interact touches one Agent object, and of it only the log, by
\* appending: every other object, the dict and the number of objects stay
IsolatedStep ==
    InteractStep =>
        /\ agents' = agents
        /\ Len(heap') = Len(heap)
        /\ \A o \in Objs :
               IF o = Callee
               THEN /\ heap'[o].name = heap[o].name
                    /\ heap'[o].role_description = heap[o].role_description
                    /\ IsPrefix(heap[o].log, heap'[o].log)
               ELSE heap'[o] = heap[o]

\* C16: every step of an interact call, whether the call returns or fails, appends
\* to the log of the agent it was called on and changes nothing else: every other
\* agent keeps its role description and its log, and the registry its names.
C16_AgentsIsolated == [][UNCHANGED vars \/ IsolatedStep]_vars

\* an interact on the second of two registered agents has failed after logging
\* its query; the first agent, of another role description, has its exchange
C16_Witness ==
    /\ pc = "idle"
    /\ result.status = "StreamError"
    /\ Len(agents) = 2
    /\ LET a == heap[agents[1].obj]
           b == heap[agents[2].obj]
       IN  /\ Len(a.log) = 2
           /\ Len(b.log) = 1
           /\ a.role_description # b.role_description

\* ---------------------------------------------------------------- C17
\* name n is not in the registry: the lookups find nothing, list_agents() has no
\* such key, and get_full_log() holds no entry of an Agent object of that name
\* that the registry dropped: an entry of such an object occurs in it only as
\* often as the registered agents' logs hold an equal entry, and never under the
\* role n (an agent of another name logs under its own name and "assistant")
GoneFromRegistry(n) ==
    /\ get_agent(n) = 0
    /\ ~get_agent_log(n).found
    /\ n \notin DOMAIN list_agents
    /\ \A o \in Dropped :
           (heap[o].name = n) =>
               \A i \in 1 .. Len(heap[o].log) :
                   Count(get_full_log, heap[o].log[i]) =
                       CountRegistered(dict_keys(agents), heap[o].log[i])
    /\ (n # ASSISTANT) =>
           \A i \in 1 .. Len(get_full_log) : get_full_log[i].role # n

\* C17: remove_agent(name) takes name out of the registry; a name comes into the
\* registry by add_agent(name, ...) only; and while a name is not in it,
\* get_agent and get_agent_log return None for it, list_agents() does not have it
\* and get_full_log() has none of the entries of its former agent, whatever is
\* done through a reference to that agent kept from before.
C17_RemovedIsGone ==
    /\ [](\A n \in Names : (n \notin dict_keys(agents)) => GoneFromRegistry(n))
    /\ [][\A n \in Names :
            /\ remove_agent(n) => (n \notin dict_keys(agents'))
            /\ (n \notin dict_keys(agents) /\ n \in dict_keys(agents')) =>
                   \E r \in Roles : add_agent(n, r)]_vars

\* an interact runs on an agent that is no longer registered and has an earlier
\* entry in its log, next to a registered agent with an entry of its own
C17_Witness ==
    /\ pc = "chat"
    /\ call.obj \in Dropped
    /\ heap[call.obj].name \notin dict_keys(agents)
    /\ Len(heap[call.obj].log) = 2
    /\ Len(get_full_log) = 1

\* ---------------------------------------------------------------- C18
\* the step on which the chat of a pass fails, at the opening of the stream or
\* while it is consumed
ChatFails == pc = "chat" /\ pc' \in {"idle", "exited"} /\ result'.status # "ok"

\* C18: when the chat of pass i of interact(query, iterations = k) fails, the
\* agent's log is its log at the call followed by 2(i-1)+1 entries, the last of
\* them the query of pass i under the agent's name with no reply after it, and
\* the failure takes nothing back.
C18_InteractNotAtomic ==
    [][ChatFails =>
           LET o == call.obj
               i == call.iterations - call.left + 1
               log == heap[o].log
           IN  /\ i \in 1 .. call.iterations
               /\ heap' = heap
               /\ IsPrefix(call.log0, log)
               /\ Len(log) = Len(call.log0) + 2 * (i - 1) + 1
               /\ Last(log).role = heap[o].name
               /\ Last(log).content = call.query
               /\ Last(origin[o]) = "query"
               /\ \A j \in 1 .. i - 1 :
                      /\ origin[o][Len(call.log0) + 2 * j - 1] = "query"
                      /\ origin[o][Len(call.log0) + 2 * j] = "reply"]_vars

\* the second pass of an interact with iterations = 2 has failed at the opening
\* of the stream: the first exchange and the second query are in the log
C18_Witness ==
    /\ pc = "exited"
    /\ result.status = "SystemExit"
    /\ call.iterations = 2
    /\ call.left = 1
    /\ LET log == heap[call.obj].log
       IN  /\ Len(log) = Len(call.log0) + 3
           /\ log[Len(log) - 1].role = ASSISTANT
           /\ log[Len(log) - 1].content = "p2"
           /\ Last(log) = [timestamp |-> 0, role |-> "dev", content |-> "p2"]

\* ---------------------------------------------------------------- C19
\* what get_full_log() returns on the dict d and the Agent objects h
get_full_log_on(d, h) ==
    sort_by_timestamp(Flatten([i \in 1 .. Len(d) |-> h[d[i].obj].log]))

====
